---- MODULE Spec2Model ----
(***************************************************************************)
(* Model of rust-wordle: the library src/src/lib.rs (Guess::build,         *)
(* Guess::new, Guess::as_array, Guess::verify, GameResponse) and the       *)
(* terminal game loop src/examples/term.rs (play_game).                    *)
(*                                                                         *)
(* A Rust String is modelled as a sequence of chars; a char is a token     *)
(* ("a", "1", "U+00E9", ...) with its UTF-8 width and its Unicode          *)
(* Alphabetic property, because String::len counts bytes while             *)
(* String::chars counts chars.                                             *)
(***************************************************************************)
EXTENDS Integers, Sequences, FiniteSets, TLC

VARIABLES pc,        \* position of the modelled run
          input,     \* the String handed to Guess::build / read from stdin
          built,     \* the Result of Guess::build
          guess,     \* the Guess whose verify is called (self)
          answer,    \* the Guess passed as answer
          resp,      \* outcome of Guess::verify
          r,         \* a GameResponse to be rendered
          compact,   \* a String of verdict symbols
          parsed,    \* outcome of GameResponse::new
          i,         \* play_game: the loop variable of `for i in 0..6`
          result,    \* play_game: the returned GameVictory
          reads,     \* play_game: number of read_line calls so far
          verified,  \* play_game: number of verify calls so far
          rejected,  \* play_game: number of inputs Guess::build rejected
          victories  \* play_game: number of responses with victory()

vars == <<pc, input, built, guess, answer, resp, r, compact, parsed,
          i, result, reads, verified, rejected, victories>>

libVars == <<input, built, guess, answer, resp, r, compact, parsed>>
gameVars == <<i, result, reads, verified, rejected, victories>>

(* Bounds of the model *)

\* longest String handed to Guess::build
MaxLen == 6
\* longest String handed to the unchecked constructor Guess::new
MaxNewLen == 6
\* longest String handed to GameResponse::new
MaxSymLen == 6
\* number of rejected inputs after which the modelled player stops mistyping
MaxRejects == 2

(* Program constants *)

\* the 5 of `text.len() != 5` and of the arrays `[char; 5]`
WordLen == 5
\* the 6 of `for i in 0..6`
Attempts == 6

(* Chars and Strings *)

AsciiLetters == {"a", "b", "c", "d", "e", "i", "l", "p", "r", "s", "t"}

\* char::is_alphabetic: the ASCII letters and U+00E9 (e with acute) have the
\* Alphabetic property; digits, the euro sign U+20AC and white space do not.
is_alphabetic(c) == c \in AsciiLetters \cup {"U+00E9"}

\* the number of bytes of c in UTF-8
len_utf8(c) ==
    CASE c = "U+00E9" -> 2
      [] c = "U+20AC" -> 3
      [] OTHER -> 1

\* String::len: the length in BYTES
RECURSIVE len(_)
len(text) ==
    IF text = <<>> THEN 0 ELSE len_utf8(Head(text)) + len(Tail(text))

\* str::contains(char)
contains(text, c) == \E k \in 1..Len(text) : text[k] = c

\* all Strings of at most n chars over the chars S
StringsUpTo(S, n) == UNION {[1..k -> S] : k \in 0..n}

(* Guess *)

None == [kind |-> "None"]
Ok(v) == [kind |-> "Ok", value |-> v]
Err(e) == [kind |-> "Err", error |-> e]
Panic(m) == [kind |-> "Panic", message |-> m]

\* Guess::new: no check at all
new(text) == [text |-> text]

\* Guess::build
build(text) ==
    IF len(text) # WordLen
    THEN Err("NotFiveLetters")
    ELSE IF ~(\A k \in 1..Len(text) : is_alphabetic(text[k]))
         THEN Err("NotAlphabetic")
         ELSE Ok(new(text))

\* Guess::as_array: starts from ['a'; 5] and stores the k-th char at index k;
\* storing at an index beyond the array panics.
RECURSIVE as_array_loop(_, _, _)
as_array_loop(build_array, k, text) ==
    IF k > Len(text) THEN Ok(build_array)
    ELSE IF k > WordLen THEN Panic("index out of bounds")
    ELSE as_array_loop([build_array EXCEPT ![k] = text[k]], k + 1, text)

as_array(g) == as_array_loop([k \in 1..WordLen |-> "a"], 1, g.text)

five_greys == [k \in 1..WordLen |-> "Gray"]

\* a bug: an exact match is recorded as consumed but not turned Green
first_pass_step_NoGreen(st, k, guess_array, answer_array, answer_text) ==
    IF guess_array[k] = answer_array[k]
    THEN [st EXCEPT !.pointed[k] = TRUE]
    ELSE IF contains(answer_text, guess_array[k])
         THEN [st EXCEPT !.resp[k] = "Yellow"]
         ELSE st

\* body of the first loop of verify (lines 87-95)
first_pass_step(st, k, guess_array, answer_array, answer_text) ==
    IF guess_array[k] = answer_array[k]
    THEN [st EXCEPT !.resp[k] = "Green", !.pointed[k] = TRUE]
    ELSE IF contains(answer_text, guess_array[k])
         THEN [st EXCEPT !.resp[k] = "Yellow"]
         ELSE st

RECURSIVE first_pass(_, _, _, _, _)
first_pass(st, k, guess_array, answer_array, answer_text) ==
    IF k > WordLen THEN st
    ELSE first_pass(first_pass_step(st, k, guess_array, answer_array, answer_text),
                    k + 1, guess_array, answer_array, answer_text)

\* a bug: a yellow is kept although the answer char is already pointed to
scan_step_NoConsume(st, h, k) ==
    [kind |-> "break",
     st |-> [st EXCEPT !.resp[h] = "Yellow", !.pointed[k] = TRUE]]

\* body of the inner loop of verify (lines 109-114), for a matching answer
\* index k
scan_step(st, h, k) ==
    IF ~st.pointed[k]
    THEN [kind |-> "break",
          st |-> [st EXCEPT !.resp[h] = "Yellow", !.pointed[k] = TRUE]]
    ELSE [kind |-> "continue", st |-> [st EXCEPT !.resp[h] = "Gray"]]

\* the inner loop of verify (lines 104-115): the answer indices holding
\* char_to_match, in order
RECURSIVE scan(_, _, _, _, _)
scan(st, h, k, char_to_match, answer_array) ==
    IF k > WordLen THEN st
    ELSE IF answer_array[k] # char_to_match
         THEN scan(st, h, k + 1, char_to_match, answer_array)
         ELSE LET s == scan_step(st, h, k)
              IN  IF s.kind = "break" THEN s.st
                  ELSE scan(s.st, h, k + 1, char_to_match, answer_array)

\* the second loop of verify (lines 101-117)
RECURSIVE second_pass(_, _, _, _, _)
second_pass(st, h, resp_copy, guess_array, answer_array) ==
    IF h > WordLen THEN st
    ELSE second_pass(IF resp_copy[h] = "Yellow"
                     THEN scan(st, h, 1, guess_array[h], answer_array)
                     ELSE st,
                     h + 1, resp_copy, guess_array, answer_array)

\* Guess::verify
verify(g, a) ==
    LET ga == as_array(g)
        aa == as_array(a)
    IN  IF ga.kind = "Panic" THEN ga
        ELSE IF aa.kind = "Panic" THEN aa
        ELSE LET st0 == [resp |-> five_greys,
                         pointed |-> [k \in 1..WordLen |-> FALSE]]
                 st1 == first_pass(st0, 1, ga.value, aa.value, a.text)
                 st2 == second_pass(st1, 1, st1.resp, ga.value, aa.value)
             IN  Ok(st2.resp)

\* a bug: the Yellow arm is a copy of the Green arm
to_char_CopiedArm(v) ==
    CASE v = "Green" -> "G"
      [] v = "Yellow" -> "G"
      [] v = "Gray" -> "-"

\* GameResponseChar::to_char
to_char(v) ==
    CASE v = "Green" -> "G"
      [] v = "Yellow" -> "Y"
      [] v = "Gray" -> "-"

\* GameResponseChar::to_emoji (GREEN, YELLOW and GRAY of lines 9-11)
to_emoji(v) ==
    CASE v = "Green" -> "U+1F7E9"
      [] v = "Yellow" -> "U+1F7E8"
      [] v = "Gray" -> "U+2B1C"

\* a bug: an unknown symbol is read as Gray
match_char_Lenient(c) ==
    CASE c = "G" -> "Green"
      [] c = "Y" -> "Yellow"
      [] OTHER -> "Gray"

\* the match of GameResponse::new (lines 170-177)
match_char(c) ==
    CASE c = "G" -> "Green"
      [] c = "Y" -> "Yellow"
      [] c \in {"X", "-"} -> "Gray"
      [] OTHER -> "unreachable"

\* the loop of GameResponse::new: the match is evaluated before the array
\* is indexed, so an unknown symbol panics first
RECURSIVE new_loop(_, _, _)
new_loop(my_array, k, text) ==
    IF k > Len(text) THEN Ok(my_array)
    ELSE IF match_char(text[k]) = "unreachable"
         THEN Panic("GameResponse builder string contains char that isn't G, Y, or -!")
    ELSE IF k > WordLen THEN Panic("index out of bounds")
    ELSE new_loop([my_array EXCEPT ![k] = match_char(text[k])], k + 1, text)

\* GameResponse::new
GameResponse_new(text) == new_loop(five_greys, 1, text)

\* GameResponse::unpretty_string
unpretty_string(text) == [k \in 1..Len(text) |-> to_char(text[k])]

\* GameResponse::pretty_string
pretty_string(text) == [k \in 1..Len(text) |-> to_emoji(text[k])]

\* GameResponse::victory
victory(text) == \A k \in 1..Len(text) : text[k] = "Green"

\* str::trim: white space is removed at both ends
IsWhitespace(c) == c \in {" ", "LF"}

RECURSIVE trim_start(_)
trim_start(text) ==
    IF text # <<>> /\ IsWhitespace(Head(text)) THEN trim_start(Tail(text)) ELSE text

RECURSIVE trim_end(_)
trim_end(text) ==
    IF text # <<>> /\ IsWhitespace(text[Len(text)])
    THEN trim_end(SubSeq(text, 1, Len(text) - 1))
    ELSE text

trim(text) == trim_end(trim_start(text))

(* Inputs *)

\* chars of the Strings handed to Guess::build: two ASCII letters, a letter
\* of 2 bytes, an ASCII digit and a symbol of 3 bytes
BuildChars == {"a", "b", "U+00E9", "1", "U+20AC"}

BuildInputs == StringsUpTo(BuildChars, MaxLen)

\* the Guess values Guess::build returns for these inputs
Accepted == {build(t).value : t \in {u \in BuildInputs : build(u).kind = "Ok"}}

\* the Guess values made by the unchecked Guess::new
Unchecked == {new(t) : t \in StringsUpTo({"a", "b"}, MaxNewLen)}

Word(c1, c2, c3, c4, c5) == new(<<c1, c2, c3, c4, c5>>)

speed == Word("s", "p", "e", "e", "d")
crepe == Word("c", "r", "e", "p", "e")
erase == Word("e", "r", "a", "s", "e")
abide == Word("a", "b", "i", "d", "e")
steal == Word("s", "t", "e", "a", "l")

\* the words of the tests of lines 231-265
Fixtures == {speed, crepe, erase, abide, steal}

GuessPairs ==
    ((Accepted \cup Unchecked) \X (Accepted \cup Unchecked))
        \cup (Fixtures \X Fixtures)

Verdicts == {"Green", "Yellow", "Gray"}

\* every value of [GameResponseChar; 5]
Responses == [1..WordLen -> Verdicts]

SymbolStrings == StringsUpTo({"G", "Y", "-", "X", "A"}, MaxSymLen)

\* the answers main may pick from the dictionary
GameAnswers == {speed, abide, steal}

\* the lines the player types; read_line keeps the line feed
GameLines ==
    {t \o <<"LF">> : t \in
        {speed.text, abide.text, steal.text, crepe.text,
         <<" ", "s", "p", "e", "e", "d", " ">>,
         <<"s", "p", " ", "e", "d">>,
         <<"a", "b">>,
         <<"1", "1", "1", "1", "1">>,
         <<"U+00E9", "e", "e", "d">>,
         <<"U+20AC", "U+20AC", "U+20AC", "U+20AC", "U+20AC">>}}
    \cup {<<>>}

(* Guess::build on its own *)

InitBuild ==
    /\ pc = "input"
    /\ input \in BuildInputs
    /\ built = None /\ guess = None /\ answer = None /\ resp = None
    /\ r = <<>> /\ compact = <<>> /\ parsed = None
    /\ i = 0 /\ result = "none" /\ reads = 0 /\ verified = 0
    /\ rejected = 0 /\ victories = 0

Build ==
    /\ pc = "input"
    /\ built' = build(input)
    /\ pc' = "built"
    /\ UNCHANGED <<input, guess, answer, resp, r, compact, parsed>>
    /\ UNCHANGED gameVars

NextBuild == Build

SpecBuild == InitBuild /\ [][NextBuild]_vars

(* Guess::verify and the Display of its response *)

InitVerify ==
    /\ pc = "guesses"
    /\ \E p \in GuessPairs : guess = p[1] /\ answer = p[2]
    /\ input = <<>> /\ built = None /\ resp = None
    /\ r = <<>> /\ compact = <<>> /\ parsed = None
    /\ i = 0 /\ result = "none" /\ reads = 0 /\ verified = 0
    /\ rejected = 0 /\ victories = 0

Verify ==
    /\ pc = "guesses"
    /\ resp' = verify(guess, answer)
    /\ pc' = "verified"
    /\ UNCHANGED <<input, built, guess, answer, r, compact, parsed>>
    /\ UNCHANGED gameVars

\* resp.to_string(): Display for GameResponse writes unpretty_string
Display ==
    /\ pc = "verified"
    /\ resp.kind = "Ok"
    /\ r' = resp.value
    /\ compact' = unpretty_string(resp.value)
    /\ pc' = "displayed"
    /\ UNCHANGED <<input, built, guess, answer, resp, parsed>>
    /\ UNCHANGED gameVars

NextVerify == Verify \/ Display

SpecVerify == InitVerify /\ [][NextVerify]_vars

(* GameResponse: rendering and parsing *)

InitResponse ==
    /\ \/ pc = "response" /\ r \in Responses /\ compact = <<>>
       \/ pc = "symbols" /\ r = <<>> /\ compact \in SymbolStrings
    /\ input = <<>> /\ built = None /\ guess = None /\ answer = None
    /\ resp = None /\ parsed = None
    /\ i = 0 /\ result = "none" /\ reads = 0 /\ verified = 0
    /\ rejected = 0 /\ victories = 0

UnprettyString ==
    /\ pc = "response"
    /\ compact' = unpretty_string(r)
    /\ pc' = "symbols"
    /\ UNCHANGED <<input, built, guess, answer, resp, r, parsed>>
    /\ UNCHANGED gameVars

New ==
    /\ pc = "symbols"
    /\ parsed' = GameResponse_new(compact)
    /\ pc' = "parsed"
    /\ UNCHANGED <<input, built, guess, answer, resp, r, compact>>
    /\ UNCHANGED gameVars

NextResponse == UnprettyString \/ New

SpecResponse == InitResponse /\ [][NextResponse]_vars

(* play_game *)

InitGame ==
    /\ pc = "get_any_guess"
    /\ answer \in GameAnswers
    /\ input = <<>> /\ built = None /\ guess = None /\ resp = None
    /\ r = <<>> /\ compact = <<>> /\ parsed = None
    /\ i = 0 /\ result = "none" /\ reads = 0 /\ verified = 0
    /\ rejected = 0 /\ victories = 0

\* a bug: a rejected input uses up an attempt
after_reject_Counted(n) == n + 1

\* get_any_guess after manage_user_guess returned None: the while loop goes
\* round, the loop variable of play_game is not touched
after_reject(n) == n

\* manage_user_guess returns None: the input is rejected, the error printed
ManageUserGuessNone ==
    /\ pc = "get_any_guess"
    /\ rejected < MaxRejects
    /\ \E line \in GameLines :
        /\ build(trim(line)).kind = "Err"
        /\ input' = line
        /\ built' = build(trim(line))
    /\ reads' = reads + 1
    /\ rejected' = rejected + 1
    /\ i' = after_reject(i)
    /\ UNCHANGED <<pc, guess, answer, resp, r, compact, parsed,
                   result, verified, victories>>

\* lines 47-52 of play_game: return Won on a victory, go round the loop
\* otherwise and return Lost when it is exhausted
after_verify(won, n) ==
    IF won
    THEN [pc |-> "returned", i |-> n, result |-> "Won"]
    ELSE IF n + 1 >= Attempts
         THEN [pc |-> "returned", i |-> n + 1, result |-> "Lost"]
         ELSE [pc |-> "get_any_guess", i |-> n + 1, result |-> "none"]

\* manage_user_guess returns Some(guess): one iteration of the loop of
\* play_game runs to its end
PlayGameIteration ==
    /\ pc = "get_any_guess"
    /\ \E line \in GameLines :
        /\ build(trim(line)).kind = "Ok"
        /\ input' = line
        /\ built' = build(trim(line))
    /\ guess' = built'.value
    /\ resp' = verify(guess', answer)
    /\ reads' = reads + 1
    /\ verified' = verified + 1
    /\ IF resp'.kind = "Panic"
       THEN /\ pc' = "panicked"
            /\ UNCHANGED <<r, compact, i, result, victories>>
       ELSE /\ r' = resp'.value
            /\ compact' = unpretty_string(r')
            /\ victories' = IF victory(r') THEN victories + 1 ELSE victories
            /\ LET nxt == after_verify(victory(r'), i)
               IN  pc' = nxt.pc /\ i' = nxt.i /\ result' = nxt.result
    /\ UNCHANGED <<answer, parsed, rejected>>

\* read_line fails (stdin is not UTF-8) and unwrap panics
ReadLineFails ==
    /\ pc = "get_any_guess"
    /\ pc' = "panicked"
    /\ reads' = reads + 1
    /\ UNCHANGED libVars
    /\ UNCHANGED <<i, result, verified, rejected, victories>>

NextGame == ManageUserGuessNone \/ PlayGameIteration \/ ReadLineFails

SpecGame == InitGame /\ [][NextGame]_vars

(* Definitions used to state the claims *)

\* g is a value Guess::build returns
AcceptedByBuild(g) == build(g.text) = Ok(g)

Str5(c1, c2, c3, c4, c5) == <<c1, c2, c3, c4, c5>>

AllGreen == [k \in 1..WordLen |-> "Green"]

\* The two-pass reference algorithm of the specification, on the letters of
\* the two words.  Pass 1: position k is Correct, and answer position k is
\* consumed, when both words hold the same letter there.
RefCorrect(g, a) == {k \in 1..Len(g) : k <= Len(a) /\ g[k] = a[k]}

\* Pass 2, from guess position k on: st.verdict is the verdict sequence so
\* far, st.consumed the set of consumed answer positions.
RECURSIVE RefPass2(_, _, _, _)
RefPass2(st, k, g, a) ==
    IF k > Len(g) THEN st.verdict
    ELSE IF st.verdict[k] = "Green" THEN RefPass2(st, k + 1, g, a)
    ELSE LET free == {j \in 1..Len(a) : j \notin st.consumed /\ a[j] = g[k]}
         IN  IF free = {}
             THEN RefPass2(st, k + 1, g, a)
             ELSE LET j == CHOOSE m \in free : \A n \in free : m <= n
                  IN  RefPass2([verdict |-> [st.verdict EXCEPT ![k] = "Yellow"],
                                consumed |-> st.consumed \cup {j}],
                               k + 1, g, a)

RefVerify(g, a) ==
    RefPass2([verdict |-> [k \in 1..Len(g) |->
                               IF k \in RefCorrect(g, a) THEN "Green" ELSE "Gray"],
              consumed |-> RefCorrect(g, a)],
             1, g, a)

\* number of positions of text t holding letter L
Count(t, L) == Cardinality({k \in 1..Len(t) : t[k] = L})

\* number of positions of the guess holding L whose verdict is Correct or
\* Present
Scored(t, verdicts, L) ==
    Cardinality({k \in 1..Len(t) : t[k] = L /\ verdicts[k] \in {"Green", "Yellow"}})

(* C1: for every guess and answer accepted by Guess::build, verify returns
   exactly the verdict sequence of the two-pass reference algorithm. *)
C1_VerifyIsReference ==
    (pc = "verified" /\ AcceptedByBuild(guess) /\ AcceptedByBuild(answer))
        => resp = Ok(RefVerify(guess.text, answer.text))

\* Supporting fact for C1: the two agree whenever both accepted words have
\* 5 chars.
VerifyIsReferenceOnFiveChars ==
    (pc = "verified" /\ AcceptedByBuild(guess) /\ AcceptedByBuild(answer)
        /\ Len(guess.text) = WordLen /\ Len(answer.text) = WordLen)
        => resp = Ok(RefVerify(guess.text, answer.text))

(* C2: Guess::build fails with NotFiveLetters for every input whose
   character count is not 5, whatever its characters are. *)
C2_WrongLengthRejected ==
    (pc = "built" /\ Len(input) # WordLen) => built = Err("NotFiveLetters")

\* Supporting fact for C2 and C3: the check of line 45 is on the BYTE length.
WrongByteLengthRejected ==
    (pc = "built" /\ len(input) # WordLen) => built = Err("NotFiveLetters")

(* C3: for every input of 5 characters none of which is alphabetic,
   Guess::build fails with NotAlphabetic. *)
C3_NonAlphabeticRejected ==
    (pc = "built" /\ Len(input) = WordLen
        /\ \A k \in 1..Len(input) : ~is_alphabetic(input[k]))
        => built = Err("NotAlphabetic")

(* C4: letter-count conservation: for guess and answer accepted by
   Guess::build and every letter L, the guess positions holding L with
   verdict Correct or Present are at most the occurrences of L in the
   answer's text. *)
C4_LetterCountConservation ==
    (pc = "verified" /\ AcceptedByBuild(guess) /\ AcceptedByBuild(answer)
        /\ resp.kind = "Ok")
        => \A k \in 1..Len(guess.text) :
              Scored(guess.text, resp.value, guess.text[k])
                  <= Count(answer.text, guess.text[k])

\* Supporting fact for C4: conservation holds when the answer has 5 chars.
LetterCountConservationOnFiveChars ==
    (pc = "verified" /\ AcceptedByBuild(guess) /\ AcceptedByBuild(answer)
        /\ resp.kind = "Ok" /\ Len(answer.text) = WordLen)
        => \A k \in 1..Len(guess.text) :
              Scored(guess.text, resp.value, guess.text[k])
                  <= Count(answer.text, guess.text[k])

(* C5 as stated: with the ANSWER fixed to "speed", the guesses speed, abide,
   erase, steal and crepe display GGGGG (a victory), --Y-Y, Y-YY-, G-G--
   and -YGY-. *)
C5_FixturesAnswerSpeed ==
    (pc = "displayed" /\ answer = speed) =>
        /\ guess = speed => (compact = Str5("G", "G", "G", "G", "G") /\ victory(r))
        /\ guess = abide => compact = Str5("-", "-", "Y", "-", "Y")
        /\ guess = erase => compact = Str5("Y", "-", "Y", "Y", "-")
        /\ guess = steal => compact = Str5("G", "-", "G", "-", "-")
        /\ guess = crepe => compact = Str5("-", "Y", "G", "Y", "-")

(* C5 amended: with the GUESS fixed to "speed", the answers speed, abide,
   erase, steal and crepe display GGGGG (a victory), --Y-Y, Y-YY-, G-G--
   and -YGY-; no other of these responses is a victory. *)
C5_FixturesGuessSpeed ==
    (pc = "displayed" /\ guess = speed) =>
        /\ answer = speed => (compact = Str5("G", "G", "G", "G", "G") /\ victory(r))
        /\ answer = abide => (compact = Str5("-", "-", "Y", "-", "Y") /\ ~victory(r))
        /\ answer = erase => (compact = Str5("Y", "-", "Y", "Y", "-") /\ ~victory(r))
        /\ answer = steal => (compact = Str5("G", "-", "G", "-", "-") /\ ~victory(r))
        /\ answer = crepe => (compact = Str5("-", "Y", "G", "Y", "-") /\ ~victory(r))

C5_Witness ==
    pc = "displayed" /\ guess = speed /\ answer = abide
        /\ compact = Str5("-", "-", "Y", "-", "Y")

\* the compact string holds a char outside S
HasSymbolOutside(text, S) == \E k \in 1..Len(text) : text[k] \notin S

(* C6 as stated: parsing a compact string holding any character other than
   G, Y and - fails with an invalid-symbol error returned as a value. *)
C6_InvalidSymbolIsErrorValue ==
    (pc = "parsed" /\ HasSymbolOutside(compact, {"G", "Y", "-"}))
        => parsed = Err("InvalidVerdictSymbol")

(* C6 amended: parsing a compact string holding any character other than
   G, Y, - and X never succeeds and returns no error value: it panics.  X is
   read as Gray, like -. *)
C6_InvalidSymbolPanics ==
    pc = "parsed" =>
        /\ HasSymbolOutside(compact, {"G", "Y", "-", "X"}) => parsed.kind = "Panic"
        /\ (~HasSymbolOutside(compact, {"G", "Y", "-", "X"}) /\ Len(compact) <= WordLen)
              => /\ parsed.kind = "Ok"
                 /\ \A k \in 1..Len(compact) :
                       compact[k] = "X" => parsed.value[k] = "Gray"

C6_Witness ==
    pc = "parsed" /\ Len(compact) = WordLen /\ compact[3] = "A"
        /\ parsed.kind = "Panic"

(* C7: for any two Guess values, those of the unchecked Guess::new
   included, verify returns a verdict sequence index-aligned with the
   letters of the guess or fails with LengthMismatch: it never pads,
   truncates or indexes out of bounds. *)
C7_VerifyAlignedOrLengthMismatch ==
    pc = "verified" =>
        \/ resp.kind = "Ok" /\ DOMAIN resp.value = 1..Len(guess.text)
        \/ resp = Err("LengthMismatch")

(* C8: reflexivity: for every word w accepted by Guess::build, w.verify(w)
   is Correct at all 5 positions, displays GGGGG and is a victory. *)
C8_Reflexive ==
    (guess = answer /\ AcceptedByBuild(guess)) =>
        /\ pc = "verified" => (resp = Ok(AllGreen) /\ victory(resp.value))
        /\ pc = "displayed" => (r = AllGreen /\ victory(r)
                                  /\ compact = Str5("G", "G", "G", "G", "G"))

C8_Witness ==
    pc = "displayed" /\ guess = answer /\ AcceptedByBuild(guess)
        /\ guess.text = Str5("a", "b", "b", "a", "b") /\ victory(r)

(* C9: round trip: for each of the 3^5 verdict sequences r, unpretty_string
   has length 5 over G, Y and -, and GameResponse::new of it is r again. *)
C9_RoundTrip ==
    r \in Responses =>
        /\ pc \in {"symbols", "parsed"} =>
              (Len(compact) = WordLen
                 /\ \A k \in 1..Len(compact) : compact[k] \in {"G", "Y", "-"})
        /\ pc = "parsed" => parsed = Ok(r)

C9_Witness ==
    pc = "parsed" /\ r = Str5("Green", "Yellow", "Gray", "Yellow", "Green")
        /\ compact = Str5("G", "Y", "-", "Y", "G") /\ parsed = Ok(r)

(* C10: in play_game at most 6 guesses are verified; a rejected input is
   re-prompted and uses up no attempt; Won is returned at the first victory
   and nothing is read afterwards; Lost is returned only after 6 verified
   guesses without a victory. *)
C10_PlayGame ==
    /\ [](verified <= Attempts)
    /\ [](verified = i + (IF result = "Won" THEN 1 ELSE 0))
    /\ [][rejected' = rejected + 1
            => (i' = i /\ verified' = verified /\ pc' = "get_any_guess")]_vars
    /\ [](victories > 0 => (result = "Won" /\ victories = 1 /\ victory(r)))
    /\ [](result = "Won" => (pc = "returned" /\ victories = 1))
    /\ [][pc = "returned" => (reads' = reads /\ verified' = verified)]_vars
    /\ [](result = "Lost"
            => (pc = "returned" /\ verified = Attempts /\ victories = 0))

C10_Witness ==
    result = "Won" /\ verified = Attempts /\ rejected = MaxRejects

====
